---- MODULE Spec2Model ----
(***************************************************************************)
(* Model of the SYF marketplace MCP server: the fetch-with-fallback of     *)
(* fetchOffers, its eight-stage filter/paginate pipeline, and the          *)
(* get_offers tool handler.                                                *)
(*                                                                         *)
(* JavaScript values are modelled as follows.                              *)
(*   - a string is a TLA+ string; toUpperCase, toLowerCase, trim and       *)
(*     includes work on its characters;                                    *)
(*   - an optional field is None (absent, undefined) or Some(v);           *)
(*   - the outcome of a predicate is "keep" (truthy), "drop" (falsy, also  *)
(*     undefined) or "throw" (a TypeError from reading a property of       *)
(*     undefined);                                                         *)
(*   - a price in USD is a whole number of cents.                          *)
(***************************************************************************)
EXTENDS Integers, Sequences, FiniteSets, TLC

VARIABLES
    pc,         \* position of the one invocation in progress
    input,      \* fetchOffers: the GetOffersInput it was called with
    upstream,   \* fetchOffers: how the awaited axios.get ended
    allOffers,  \* fetchOffers: the candidate list
    ret,        \* fetchOffers: the list it returned
    args,       \* handleGetOffers: its arguments
    result,     \* handleGetOffers: the CallToolResult it returned
    rawArgs,    \* the validating handleGetOffers: its unvalidated arguments
    fetchInvoked, \* the handler in progress has called its fetch
    apiKey,     \* SYF_API_KEY, read from the environment when the module loads
    dataset,    \* the elements of the module-level array MOCK_OFFERS
    earlier,    \* the fetchOffers invocation completed before this one
    calls,      \* the fetchOffers invocations in progress side by side
    activeSessions, \* server.ts: the Map from session id to the SSE transport
    conns,      \* the SSE connections: how far GET /sse has come for each
    lastRequest \* the last POST /messages, /mcp or GET /health request served

fetchVars == <<input, upstream, allOffers, ret>>
handlerVars == <<args, result, rawArgs, fetchInvoked>>
serverVars == <<apiKey, dataset, earlier>>
httpVars == <<activeSessions, conns, lastRequest>>
vars == <<pc, input, upstream, allOffers, ret, args, result, rawArgs,
          fetchInvoked, apiKey, dataset, earlier, calls, activeSessions, conns,
          lastRequest>>

---------------------------------------------------------------------------
(* Bounds of the model.                                                    *)

\* the most fields a generated query sets
MaxActiveFields == 2
\* the most offers in a live response body
MaxOffers == 3

---------------------------------------------------------------------------
(* Optional values.                                                        *)

None == <<>>
Some(v) == <<v>>
IsSome(o) == o # <<>>
Get(o) == o[1]

Min(a, b) == IF a <= b THEN a ELSE b
Max(a, b) == IF a >= b THEN a ELSE b

---------------------------------------------------------------------------
(* Strings.                                                                *)

LowerLetters == "abcdefghijklmnopqrstuvwxyz"
UpperLetters == "ABCDEFGHIJKLMNOPQRSTUVWXYZ"

CharAt(s, i) == SubSeq(s, i, i)

UpperTable ==
    [c \in {CharAt(LowerLetters, i) : i \in 1..26} |->
        CharAt(UpperLetters, CHOOSE i \in 1..26 : CharAt(LowerLetters, i) = c)]

LowerTable ==
    [c \in {CharAt(UpperLetters, i) : i \in 1..26} |->
        CharAt(LowerLetters, CHOOSE i \in 1..26 : CharAt(UpperLetters, i) = c)]

RECURSIVE MapChars(_, _, _)
MapChars(table, s, i) ==
    IF i > Len(s) THEN ""
    ELSE LET c == CharAt(s, i)
         IN  (IF c \in DOMAIN table THEN table[c] ELSE c) \o MapChars(table, s, i + 1)

toUpperCase(s) == MapChars(UpperTable, s, 1)
toLowerCase(s) == MapChars(LowerTable, s, 1)

IsSpace(c) == c \in {" ", "\t", "\n", "\r"}

RECURSIVE TrimStart(_)
TrimStart(s) ==
    IF Len(s) > 0 /\ IsSpace(CharAt(s, 1)) THEN TrimStart(SubSeq(s, 2, Len(s))) ELSE s

RECURSIVE TrimEnd(_)
TrimEnd(s) ==
    IF Len(s) > 0 /\ IsSpace(CharAt(s, Len(s))) THEN TrimEnd(SubSeq(s, 1, Len(s) - 1)) ELSE s

trim(s) == TrimEnd(TrimStart(s))

\* String.prototype.includes: t occurs in s as a contiguous substring
includes(s, t) ==
    \E i \in 1..(Len(s) - Len(t) + 1) : SubSeq(s, i, i + Len(t) - 1) = t

---------------------------------------------------------------------------
(* The closed enumerations of the input schema.                            *)

INDUSTRY_VALUES ==
    <<"FURNITURE", "ELECTRONICS & APPLIANCES", "HEALTHCARE & OPTICAL",
      "HEALTH & WELLNESS", "HEATING & AIR CONDITIONING", "HOME IMPROVEMENT",
      "JEWELRY", "LAWN & GARDEN", "MUSIC">>

OFFER_TYPE_VALUES == <<"DEALS", "FINANCING OFFERS", "EVERYDAY VALUE">>

REGION_VALUES == <<"MIDWEST", "NORTHEAST", "SOUTH", "SOUTHEAST", "WEST">>

NETWORK_VALUES ==
    <<"SYNCHRONY CAR CARE", "SYNCHRONY HOME", "SYNCHRONY FLOORING",
      "SYNCHRONY POWERSPORTS">>

Range(s) == {s[i] : i \in 1..Len(s)}

---------------------------------------------------------------------------
(* Offers. Only the fields that the pipeline reads, and the identifiers,   *)
(* are kept.                                                               *)

\* { name } of IndustrySchema, NetworkSchema, OfferTypeSchema
Named(n) == [name |-> Some(n)]
\* the same object with its name missing
Nameless == [name |-> None]

Brand(name, featured, industry, network, region) ==
    [name |-> name, featured |-> featured, industry |-> industry,
     network |-> network, region |-> region]

\* offerImage is kept by its `default` reference
Offer(slotId, groupId, offerId, title, offerType, brand, offerImage) ==
    [slotId |-> slotId, groupId |-> groupId, offerId |-> offerId,
     title |-> title, offerType |-> offerType, brand |-> brand,
     offerImage |-> offerImage]

\* the fallback dataset
MOCK_OFFERS ==
    << Offer(Some("slot-001"), Some("987654321"), Some("offer-furniture-001"),
             "Get up to a $100 Visa Prepaid Card",
             Some(Named("DEALS")),
             Some(Brand(Some("Ashley"), Some(TRUE),
                        Some(<<Named("FURNITURE"), Named("HOME IMPROVEMENT")>>),
                        Some(Named("SYF HOME")),
                        Some(<<"MIDWEST", "NORTHEAST", "SOUTH", "SOUTHEAST", "WEST">>))),
             Some("https://placeholder.syf.com/img/ashley_318_510.png")),
       Offer(Some("slot-002"), Some("987654322"), Some("offer-furniture-002"),
             "No Interest if Paid in Full within 18 Months",
             Some(Named("FINANCING OFFERS")),
             Some(Brand(Some("Rooms To Go"), Some(FALSE),
                        Some(<<Named("FURNITURE")>>),
                        Some(Named("SYF HOME")),
                        Some(<<"SOUTH", "SOUTHEAST", "MIDWEST">>))),
             Some("https://placeholder.syf.com/img/roomstogo_318_510.png")),
       Offer(Some("slot-003"), Some("987654323"), Some("offer-electronics-001"),
             "Save $200 on Select Samsung 4K TVs",
             Some(Named("DEALS")),
             Some(Brand(Some("Samsung"), Some(TRUE),
                        Some(<<Named("ELECTRONICS & APPLIANCES")>>),
                        Some(Named("SYF HOME")),
                        Some(<<"MIDWEST", "NORTHEAST", "SOUTH", "SOUTHEAST", "WEST">>))),
             Some("https://placeholder.syf.com/img/samsung_318_510.png")),
       Offer(Some("slot-004"), Some("987654324"), Some("offer-electronics-002"),
             "6-Month No Interest Financing on Purchases Over $199",
             Some(Named("FINANCING OFFERS")),
             Some(Brand(Some("Best Buy"), Some(TRUE),
                        Some(<<Named("ELECTRONICS & APPLIANCES")>>),
                        Some(Named("SYF HOME")),
                        Some(<<"MIDWEST", "NORTHEAST", "SOUTH", "SOUTHEAST", "WEST">>))),
             Some("https://placeholder.syf.com/img/bestbuy_318_510.png")),
       Offer(Some("slot-005"), Some("987654325"), Some("offer-home-001"),
             "Everyday 5% Off with the Lowe's Advantage Card",
             Some(Named("EVERYDAY VALUE")),
             Some(Brand(Some("Lowe's"), Some(TRUE),
                        Some(<<Named("HOME IMPROVEMENT")>>),
                        Some(Named("SYF HOME")),
                        Some(<<"MIDWEST", "NORTHEAST", "SOUTH", "SOUTHEAST", "WEST">>))),
             Some("https://placeholder.syf.com/img/lowes_318_510.png")),
       Offer(Some("slot-006"), Some("987654326"), Some("offer-car-001"),
             "Get up to a $100 Visa Prepaid Card on Auto Services",
             Some(Named("DEALS")),
             Some(Brand(Some("Express Oil Change & Tire Engineers"), Some(FALSE),
                        Some(<<>>),
                        Some(Named("SYF CAR CARE")),
                        Some(<<"SOUTH", "SOUTHEAST">>))),
             Some("https://placeholder.syf.com/img/carcare_318_510.png")) >>

\* Offers a live response may carry, in the order the upstream lists them.
\* The body is used as received (a cast, no schema validation), so every
\* optional field may be missing.
LiveOffers ==
    << \* a complete offer
       Offer(Some("s4"), Some("g4"), Some("live-4"), "Sofa financing",
             Some(Named("Financing Offers")),
             Some(Brand(Some("Ashley"), Some(TRUE), Some(<<Named("Furniture")>>),
                        Some(Named("SYNCHRONY HOME")), Some(<<"NORTHEAST", "South">>))),
             Some("https://img.example/sofa.png")),
       \* no brand, no offer type
       Offer(None, None, Some("live-1"), "Best deals on furniture", None, None,
             None),
       \* a complete offer whose second industry entry has no name
       Offer(Some("s5"), Some("g5"), Some("live-5"), "TV deals",
             Some(Named("DEALS")),
             Some(Brand(Some("Best Buy"), Some(FALSE),
                        Some(<<Named("ELECTRONICS & APPLIANCES"), Nameless>>),
                        Some(Named("SYNCHRONY CAR CARE")), Some(<<"SOUTHEAST">>))),
             Some("https://img.example/tv.png")),
       \* a brand and an offer type with every field missing
       Offer(None, None, Some("live-2"), "Spring sale",
             Some(Nameless), Some(Brand(None, None, None, None, None)),
             None),
       \* industry and network entries without a name
       Offer(Some("s3"), Some("g3"), Some("live-3"), "Summer sale",
             Some(Named("DEALS")),
             Some(Brand(Some("Acme"), Some(FALSE), Some(<<Nameless>>),
                        Some(Nameless), Some(<<>>))),
             None) >>

\* the lists of at most n elements of `list`, each in the order of `list`
Selections(list, n) ==
    { LET picked == SelectSeq([i \in 1..Len(list) |-> [at |-> i, item |-> list[i]]],
                              LAMBDA p : p.at \in idx)
      IN  [k \in 1..Len(picked) |-> picked[k].item] :
      idx \in {I \in SUBSET (1..Len(list)) : Cardinality(I) <= n} }

Opt(S) == {None} \cup {Some(v) : v \in S}

---------------------------------------------------------------------------
(* Queries (GetOffersInput). Every value passes the input schema.          *)

CategoryInputs == {"electronics", " BEST "}
MaxPriceInputs == {100000}
IndustryInputs == {<<>>, <<"FURNITURE">>, <<"JEWELRY", "ELECTRONICS & APPLIANCES">>}
OfferTypeInputs == {<<>>, <<"DEALS">>, <<"EVERYDAY VALUE", "FINANCING OFFERS">>}
RegionInputs == {"SOUTH", "NORTHEAST"}
NetworkInputs == {<<>>, <<"SYNCHRONY HOME">>, <<"SYNCHRONY CAR CARE", "SYNCHRONY HOME">>}
BrandInputs == {"", "best"}
LimitInputs == {1, 2}
OffsetInputs == {0, 1, 10}

QueryFields ==
    {"category", "maxPrice", "industry", "offerType", "region", "network",
     "brand", "featured", "limitOffersCount", "offset"}

NoQuery ==
    [category |-> None, maxPrice |-> None, industry |-> None, offerType |-> None,
     region |-> None, network |-> None, brand |-> None, featured |-> None,
     limitOffersCount |-> None, offset |-> None]

FieldsSet(q) == {f \in QueryFields : IsSome(q[f])}

\* the values a generated query gives to a field
FieldInputs(f) ==
    CASE f = "category" -> CategoryInputs
      [] f = "maxPrice" -> MaxPriceInputs
      [] f = "industry" -> IndustryInputs
      [] f = "offerType" -> OfferTypeInputs
      [] f = "region" -> RegionInputs
      [] f = "network" -> NetworkInputs
      [] f = "brand" -> BrandInputs
      [] f = "featured" -> BOOLEAN
      [] f = "limitOffersCount" -> LimitInputs
      [] f = "offset" -> OffsetInputs

\* the queries that set at most n fields
RECURSIVE QueriesSetting(_)
QueriesSetting(n) ==
    IF n = 0 THEN {NoQuery}
    ELSE LET fewer == QueriesSetting(n - 1)
         IN  fewer \cup
             UNION { UNION { {[q EXCEPT ![f] = Some(v)] : v \in FieldInputs(f)} :
                             f \in QueryFields \ FieldsSet(q) } :
                     q \in fewer }

\* the documented sample queries that the sets above do not produce
ScenarioQueries ==
    {[NoQuery EXCEPT !.network = Some(<<"SYF CAR CARE">>)],
     [NoQuery EXCEPT !.network = Some(<<"SYNCHRONY CAR CARE">>)],
     [NoQuery EXCEPT !.industry = Some(<<"JEWELRY">>)],
     [NoQuery EXCEPT !.offerType = Some(<<"FINANCING OFFERS">>)],
     [NoQuery EXCEPT !.offset = Some(10), !.limitOffersCount = Some(5)]}

Queries == QueriesSetting(MaxActiveFields) \cup ScenarioQueries

---------------------------------------------------------------------------
(* The filter predicates of fetchOffers. Each is the arrow function given  *)
(* to Array.prototype.filter, evaluated on one offer: "keep", "drop" or    *)
(* "throw".                                                                *)

Truthy(b) == IF b THEN "keep" ELSE "drop"

\* Array.prototype.some over the outcomes of its callback, in index order:
\* it stops at the first element whose callback is truthy or throws.
some(outcomes) ==
    IF \A i \in 1..Len(outcomes) : outcomes[i] = "drop" THEN "drop"
    ELSE outcomes[CHOOSE i \in 1..Len(outcomes) :
                    /\ outcomes[i] # "drop"
                    /\ \A j \in 1..(i - 1) : outcomes[j] = "drop"]

\* wanted.some((w) => named.name.<fold>().includes(w)), where reading
\* .name.<fold>() of an entry without a name is a TypeError
NameIncludesAny(named, fold, wanted) ==
    IF wanted = <<>> THEN "drop"
    ELSE IF named.name = None THEN "throw"
    ELSE LET folded == IF fold = "toUpperCase" THEN toUpperCase(Get(named.name))
                       ELSE toLowerCase(Get(named.name))
         IN  Truthy(\E i \in 1..Len(wanted) : includes(folded, wanted[i]))

\* 1. offer.brand?.industry?.some((ind) =>
\*        industries.some((f) => ind.name.toUpperCase().includes(f)))
IndustryPredicate(offer, industries) ==
    IF offer.brand = None THEN "drop"
    ELSE IF Get(offer.brand).industry = None THEN "drop"
    ELSE LET inds == Get(Get(offer.brand).industry)
         IN  some([i \in 1..Len(inds) |->
                      NameIncludesAny(inds[i], "toUpperCase", industries)])

\* 2. offer.brand?.industry?.some((ind) => ind.name.toLowerCase().includes(cat))
\*    || offer.brand?.name?.toLowerCase().includes(cat)
\*    || offer.title.toLowerCase().includes(cat)
CategoryPredicate(offer, cat) ==
    LET byIndustry ==
            IF offer.brand = None THEN "drop"
            ELSE IF Get(offer.brand).industry = None THEN "drop"
            ELSE LET inds == Get(Get(offer.brand).industry)
                 IN  some([i \in 1..Len(inds) |->
                              NameIncludesAny(inds[i], "toLowerCase", <<cat>>)])
        byBrand ==
            IF offer.brand = None THEN "drop"
            ELSE IF Get(offer.brand).name = None THEN "drop"
            ELSE Truthy(includes(toLowerCase(Get(Get(offer.brand).name)), cat))
        byTitle == Truthy(includes(toLowerCase(offer.title), cat))
    IN  IF byIndustry # "drop" THEN byIndustry
        ELSE IF byBrand # "drop" THEN byBrand
        ELSE byTitle

\* 3. offer.offerType
\*      ? types.some((t) => offer.offerType!.name.toUpperCase().includes(t)) : false
OfferTypePredicate(offer, types) ==
    IF offer.offerType = None THEN "drop"
    ELSE NameIncludesAny(Get(offer.offerType), "toUpperCase", types)

\* variant: an offer whose brand lists any region passes
RegionPredicate_AnyRegion(offer, regionFilter) ==
    IF offer.brand = None THEN "drop"
    ELSE IF Get(offer.brand).region = None THEN "drop"
    ELSE IF Len(Get(Get(offer.brand).region)) > 0 THEN "keep" ELSE "drop"

\* 4. offer.brand?.region?.some((r) => r.toUpperCase().includes(regionFilter))
RegionPredicate(offer, regionFilter) ==
    IF offer.brand = None THEN "drop"
    ELSE IF Get(offer.brand).region = None THEN "drop"
    ELSE LET regions == Get(Get(offer.brand).region)
         IN  some([i \in 1..Len(regions) |->
                      Truthy(includes(toUpperCase(regions[i]), regionFilter))])

\* 5. offer.brand?.network
\*      ? networks.some((n) => offer.brand!.network!.name.toUpperCase().includes(n))
\*      : false
NetworkPredicate(offer, networks) ==
    IF offer.brand = None THEN "drop"
    ELSE IF Get(offer.brand).network = None THEN "drop"
    ELSE NameIncludesAny(Get(Get(offer.brand).network), "toUpperCase", networks)

\* 6. offer.brand?.name?.toLowerCase().includes(brandFilter)
BrandPredicate(offer, brandFilter) ==
    IF offer.brand = None THEN "drop"
    ELSE IF Get(offer.brand).name = None THEN "drop"
    ELSE Truthy(includes(toLowerCase(Get(Get(offer.brand).name)), brandFilter))

\* variant: a missing brand counts as "not featured"
FeaturedPredicate_MissingIsFalse(offer, featuredFilter) ==
    IF offer.brand = None THEN Truthy(featuredFilter = FALSE)
    ELSE Truthy(Get(offer.brand).featured = Some(featuredFilter))

\* 7. offer.brand?.featured === featuredFilter
FeaturedPredicate(offer, featuredFilter) ==
    IF offer.brand = None THEN "drop"
    ELSE Truthy(Get(offer.brand).featured = Some(featuredFilter))

---------------------------------------------------------------------------
(* The stages of fetchOffers, by name.                                     *)

StageOrder ==
    <<"industry", "category", "offerType", "region", "network", "brand", "featured">>

\* list.map((x) => x.toUpperCase())
mapToUpperCase(list) == [i \in 1..Len(list) |-> toUpperCase(list[i])]

\* variant: the featured stage is guarded by `if (input.featured)`
StageActive_TruthyFeatured(stage, q) ==
    CASE stage = "industry" -> IsSome(q.industry) /\ Len(Get(q.industry)) > 0
      [] stage = "category" -> IsSome(q.category) /\ Get(q.category) # ""
      [] stage = "offerType" -> IsSome(q.offerType) /\ Len(Get(q.offerType)) > 0
      [] stage = "region" -> IsSome(q.region) /\ Get(q.region) # ""
      [] stage = "network" -> IsSome(q.network) /\ Len(Get(q.network)) > 0
      [] stage = "brand" -> IsSome(q.brand) /\ Get(q.brand) # ""
      [] stage = "featured" -> IsSome(q.featured) /\ Get(q.featured)

\* the condition of the if statement that guards the stage
StageActive(stage, q) ==
    CASE stage = "industry" -> IsSome(q.industry) /\ Len(Get(q.industry)) > 0
      [] stage = "category" -> IsSome(q.category) /\ Get(q.category) # ""
      [] stage = "offerType" -> IsSome(q.offerType) /\ Len(Get(q.offerType)) > 0
      [] stage = "region" -> IsSome(q.region) /\ Get(q.region) # ""
      [] stage = "network" -> IsSome(q.network) /\ Len(Get(q.network)) > 0
      [] stage = "brand" -> IsSome(q.brand) /\ Get(q.brand) # ""
      [] stage = "featured" -> IsSome(q.featured)

\* the predicate the stage filters with, with the filter value prepared as
\* the stage prepares it
StagePredicate(stage, q, offer) ==
    CASE stage = "industry" ->
             IndustryPredicate(offer, mapToUpperCase(Get(q.industry)))
      [] stage = "category" ->
             CategoryPredicate(offer, trim(toLowerCase(Get(q.category))))
      [] stage = "offerType" ->
             OfferTypePredicate(offer, mapToUpperCase(Get(q.offerType)))
      [] stage = "region" ->
             RegionPredicate(offer, toUpperCase(Get(q.region)))
      [] stage = "network" ->
             NetworkPredicate(offer, mapToUpperCase(Get(q.network)))
      [] stage = "brand" ->
             BrandPredicate(offer, toLowerCase(Get(q.brand)))
      [] stage = "featured" ->
             FeaturedPredicate(offer, Get(q.featured))

\* A list in the making: the working list `filtered`, or threw = TRUE when
\* a predicate has thrown and the function was left.
Working(list) == [threw |-> FALSE, offers |-> list]
Thrown == [threw |-> TRUE, offers |-> <<>>]

\* variant: the kept offers come out newest first
FilterStage_Reversed(stage, q, list) ==
    IF \E i \in 1..Len(list) : StagePredicate(stage, q, list[i]) = "throw"
    THEN Thrown
    ELSE LET kept == SelectSeq(list, LAMBDA o : StagePredicate(stage, q, o) = "keep")
         IN  Working([i \in 1..Len(kept) |-> kept[Len(kept) + 1 - i]])

\* Array.prototype.filter with the stage's predicate
FilterStage(stage, q, list) ==
    IF \E i \in 1..Len(list) : StagePredicate(stage, q, list[i]) = "throw"
    THEN Thrown
    ELSE Working(SelectSeq(list, LAMBDA o : StagePredicate(stage, q, o) = "keep"))

\* if (<active>) { filtered = filtered.filter(...) }
ApplyStage(stage, q, w) ==
    IF w.threw \/ ~StageActive(stage, q) THEN w
    ELSE FilterStage(stage, q, w.offers)

\* variant: the stages form an if / else-if chain, so only the first active
\* one runs
RECURSIVE ApplyStages_ElseIfChain(_, _, _)
ApplyStages_ElseIfChain(order, q, w) ==
    IF order = <<>> THEN w
    ELSE IF StageActive(Head(order), q) THEN ApplyStage(Head(order), q, w)
    ELSE ApplyStages_ElseIfChain(Tail(order), q, w)

RECURSIVE ApplyStages(_, _, _)
ApplyStages(order, q, w) ==
    IF order = <<>> THEN w
    ELSE ApplyStages(Tail(order), q, ApplyStage(Head(order), q, w))

\* Array.prototype.slice(start, end)
slice(list, start, end) ==
    LET len == Len(list)
        k == IF start < 0 THEN Max(len + start, 0) ELSE Min(start, len)
        final == IF end < 0 THEN Max(len + end, 0) ELSE Min(end, len)
    IN  SubSeq(list, k + 1, final)

\* variant: the slice ends at limit instead of start + limit
Paginate_EndIsLimit(q, w) ==
    IF w.threw THEN w
    ELSE LET start == IF IsSome(q.offset) THEN Get(q.offset) ELSE 0
             limit == IF IsSome(q.limitOffersCount) THEN Get(q.limitOffersCount)
                      ELSE Len(w.offers)
         IN  Working(slice(w.offers, start, limit))

\* 8. pagination
Paginate(q, w) ==
    IF w.threw THEN w
    ELSE LET start == IF IsSome(q.offset) THEN Get(q.offset) ELSE 0
             limit == IF IsSome(q.limitOffersCount) THEN Get(q.limitOffersCount)
                      ELSE Len(w.offers)
         IN  Working(slice(w.offers, start, start + limit))

\* the seven filter stages on a candidate list, in the order of the code
FilterAll(q, candidates) == ApplyStages(StageOrder, q, Working(candidates))

\* variant: offers the invocation before this one returned are not offered
\* again
FilterAndPaginate_SkipsServed(q, candidates) ==
    Paginate(q, FilterAll(q, SelectSeq(candidates, LAMBDA offer :
        ~(IsSome(earlier) /\ offer \in Range(Get(earlier).ret)))))

\* fetchOffers from `let filtered = allOffers` to its return
FilterAndPaginate(q, candidates) == Paginate(q, FilterAll(q, candidates))

---------------------------------------------------------------------------
(* The upstream call of fetchOffers.                                       *)

\* why the awaited axios.get rejects
RejectReasons == {"network_error", "timeout", "bad_status"}

\* res.data of a resolved call: null (reading body.offers is a TypeError,
\* raised inside the try block), a text that is no JSON object, or an object
\* whose `offers` is missing, is something else than an array, or is an array
NotAnArray == [isArray |-> FALSE, items |-> <<>>]
ArrayOf(items) == [isArray |-> TRUE, items |-> items]

Bodies ==
    {[kind |-> "null", offers |-> None],
     [kind |-> "text", offers |-> None],
     [kind |-> "object", offers |-> None],
     [kind |-> "object", offers |-> Some(NotAnArray)]}
    \cup {[kind |-> "object", offers |-> Some(ArrayOf(l))] :
             l \in Selections(LiveOffers, MaxOffers)}

NoBody == [kind |-> "null", offers |-> None]

Pending == [state |-> "pending", reason |-> "", data |-> NoBody]
Resolved(data) == [state |-> "resolved", reason |-> "", data |-> data]
Rejected(reason) == [state |-> "rejected", reason |-> reason, data |-> NoBody]

\* variant: the catch block gives up with an empty list
FallbackOffers_Empty == <<>>

\* the catch block: allOffers = [...MOCK_OFFERS], a copy of the elements the
\* array holds at that moment
FallbackOffers == dataset

\* variant: taking the fallback list empties the array it is taken from
AfterSpread_Drained(source) == <<>>

\* the array a spread copy was taken from: as it was
AfterSpread(source) == source

\* variant: a body without an offers array is served from the mock data
OffersOfBody_Fallback(body) ==
    IF IsSome(body.offers) /\ Get(body.offers).isArray
    THEN Get(body.offers).items
    ELSE MOCK_OFFERS

\* Array.isArray(body.offers) ? body.offers : []
OffersOfBody(body) ==
    IF IsSome(body.offers) /\ Get(body.offers).isArray
    THEN Get(body.offers).items
    ELSE <<>>

\* the try block failed: the call rejected, or reading body.offers threw
TryFailed(outcome) ==
    \/ outcome.state = "rejected"
    \/ outcome.state = "resolved" /\ outcome.data.kind = "null"

\* the try/catch statement of fetchOffers: the candidate list
Candidates(outcome) ==
    IF TryFailed(outcome) THEN FallbackOffers ELSE OffersOfBody(outcome.data)

---------------------------------------------------------------------------
(* The legacy client fetchOffersFromSynchrony and the tool handler.        *)

LegacyOffer(title, price, discount, link) ==
    [title |-> title, price |-> price, discount |-> discount, link |-> link]

LEGACY_MOCK_OFFERS ==
    << LegacyOffer("Serta Perfect Sleeper Queen Mattress", 79999,
                   Some("15% off for Synchrony cardholders"),
                   "https://marketplace.synchrony.com/offers/beds-001"),
       LegacyOffer("Sealy Posturepedic King Mattress", 119999,
                   Some("12-month no interest financing"),
                   "https://marketplace.synchrony.com/offers/beds-002"),
       LegacyOffer("Nectar Memory Foam Twin Mattress", 39900, None,
                   "https://marketplace.synchrony.com/offers/beds-003"),
       LegacyOffer("Samsung 65\" 4K QLED Smart TV", 129999,
                   Some("Save $200 - Limited time offer"),
                   "https://marketplace.synchrony.com/offers/electronics-001"),
       LegacyOffer("Apple MacBook Air M2 (15-inch)", 109900,
                   Some("6-month no interest financing"),
                   "https://marketplace.synchrony.com/offers/electronics-002"),
       LegacyOffer("Sony WH-1000XM5 Headphones", 27999, None,
                   "https://marketplace.synchrony.com/offers/electronics-003"),
       LegacyOffer("LG French Door Refrigerator 27 cu. ft.", 174999,
                   Some("18-month no interest financing available"),
                   "https://marketplace.synchrony.com/offers/appliances-001"),
       LegacyOffer("Whirlpool Top Load Washer & Dryer Bundle", 89900,
                   Some("10% off bundle deal"),
                   "https://marketplace.synchrony.com/offers/appliances-002") >>

\* variant: the category is looked for in the title only
fetchOffersFromSynchrony_TitleOnly(category, maxPrice) ==
    IF category = None THEN Thrown
    ELSE LET normalizedCategory == trim(toLowerCase(Get(category)))
             byCategory ==
                 SelectSeq(LEGACY_MOCK_OFFERS, LAMBDA offer :
                     includes(toLowerCase(offer.title), normalizedCategory))
         IN  IF IsSome(maxPrice)
             THEN Working(SelectSeq(byCategory, LAMBDA offer : offer.price <= Get(maxPrice)))
             ELSE Working(byCategory)

\* The body of fetchOffersFromSynchrony after its simulated latency. With
\* category undefined, category.toLowerCase() is a TypeError and the promise
\* rejects.
fetchOffersFromSynchrony(category, maxPrice) ==
    IF category = None THEN Thrown
    ELSE LET normalizedCategory == trim(toLowerCase(Get(category)))
             byCategory ==
                 SelectSeq(LEGACY_MOCK_OFFERS, LAMBDA offer :
                     \/ includes(toLowerCase(offer.title), normalizedCategory)
                     \/ includes(toLowerCase(offer.link), normalizedCategory))
         IN  IF IsSome(maxPrice)
             THEN Working(SelectSeq(byCategory, LAMBDA offer : offer.price <= Get(maxPrice)))
             ELSE Working(byCategory)

\* Number.prototype.toFixed(2) of an amount held in cents
toFixed2(cents) ==
    ToString(cents \div 100) \o "." \o
    ToString((cents % 100) \div 10) \o ToString(cents % 10)

\* A CallToolResult. Its one text block is kept as the message text, or as
\* the payload that JSON.stringify serialises; isError is absent unless set.
TextResult(text) == [text |-> text, payload |-> None, isError |-> None]
ErrorResult(text) == [text |-> text, payload |-> None, isError |-> Some(TRUE)]
JsonResult(payload) == [text |-> "", payload |-> Some(payload), isError |-> None]
NoResult == TextResult("")

TypeErrorMessage == "Cannot read properties of undefined (reading 'toLowerCase')"

\* variant: the catch block answers without flagging the result
OnFetchError_Unflagged(message) ==
    [escaped |-> FALSE, value |-> TextResult("Failed to fetch offers: " \o message)]

\* variant: no try/catch around the fetch
OnFetchError_Rethrow(message) == [escaped |-> TRUE, value |-> NoResult]

\* what the handler does with a rejected fetch: the catch block
OnFetchError(message) ==
    [escaped |-> FALSE, value |-> ErrorResult("Failed to fetch offers: " \o message)]

\* variant: no offers is reported as a tool error
NoOffersResult_Flagged(category, maxPrice) ==
    ErrorResult("No offers found in \"" \o Get(category) \o "\".")

\* if (offers.length === 0) { ... }
NoOffersResult(category, maxPrice) ==
    TextResult(
        IF IsSome(maxPrice) /\ Get(maxPrice) # 0
        THEN "No offers found in \"" \o Get(category) \o "\" under $"
                 \o toFixed2(Get(maxPrice)) \o "."
        ELSE "No offers found in \"" \o Get(category) \o "\".")

\* variant: totalOffers counts the offers before filtering
Envelope_CountsCandidates(category, maxPrice, offers) ==
    JsonResult([category |-> category, maxPrice |-> maxPrice,
                totalOffers |-> Len(LEGACY_MOCK_OFFERS), offers |-> offers])

\* the envelope
Envelope(category, maxPrice, offers) ==
    JsonResult([category |-> category, maxPrice |-> maxPrice,
                totalOffers |-> Len(offers), offers |-> offers])

\* handleGetOffers from the settling of the awaited fetch to its return.
\* escaped = TRUE would be an exception that leaves the handler.
handleGetOffers(a) ==
    LET fetched == fetchOffersFromSynchrony(a.category, a.maxPrice)
    IN  IF fetched.threw THEN OnFetchError(TypeErrorMessage)
        ELSE IF Len(fetched.offers) = 0
             THEN [escaped |-> FALSE, value |-> NoOffersResult(a.category, a.maxPrice)]
             ELSE [escaped |-> FALSE,
                   value |-> Envelope(a.category, a.maxPrice, fetched.offers)]

\* the arguments of a tool call: the handler reads category and maxPrice and
\* leaves every other argument, such as industry, unread
NoArgs == [category |-> None, maxPrice |-> None, industry |-> None]

\* An argument value as the tool call delivers it: absent, a string or a
\* number.
Undefined == [type |-> "undefined", str |-> "", num |-> 0]
Str(text) == [type |-> "string", str |-> text, num |-> 0]
Num(n) == [type |-> "number", str |-> "", num |-> n]

NoRawArgs == [category |-> Undefined, maxPrice |-> Undefined]

\* category: z.string().min(1, "Category cannot be an empty string.")
CategoryIssues(value) ==
    IF value.type = "undefined" THEN <<"  * [category]: Required">>
    ELSE IF value.type # "string"
    THEN <<"  * [category]: Expected string, received " \o value.type>>
    ELSE IF Len(value.str) < 1
    THEN <<"  * [category]: Category cannot be an empty string.">>
    ELSE <<>>

\* maxPrice: z.number().positive("maxPrice must be a positive number.").optional()
MaxPriceIssues(value) ==
    IF value.type = "undefined" THEN <<>>
    ELSE IF value.type # "number"
    THEN <<"  * [maxPrice]: Expected number, received " \o value.type>>
    ELSE IF value.num <= 0
    THEN <<"  * [maxPrice]: maxPrice must be a positive number.">>
    ELSE <<>>

\* variant: every argument object passes
safeParse_AcceptsAll(raw) ==
    [success |-> TRUE,
     issues |-> <<>>,
     data |-> [category |-> IF raw.category.type = "string"
                            THEN Some(raw.category.str) ELSE None,
               maxPrice |-> IF raw.maxPrice.type = "number"
                            THEN Some(raw.maxPrice.num) ELSE None,
               industry |-> None]]

\* GetOffersInputSchema.safeParse(rawArgs); the issues are kept as the lines
\* the handler prints for them, in the order of the schema's keys
safeParse(raw) ==
    LET issues == CategoryIssues(raw.category) \o MaxPriceIssues(raw.maxPrice)
    IN  [success |-> issues = <<>>,
         issues |-> issues,
         data |-> IF issues = <<>>
                  THEN [category |-> Some(raw.category.str),
                        maxPrice |-> IF raw.maxPrice.type = "number"
                                     THEN Some(raw.maxPrice.num) ELSE None,
                        industry |-> None]
                  ELSE NoArgs]

RECURSIVE JoinLines(_)
\* Array.prototype.join("\n")
JoinLines(lines) ==
    IF Len(lines) = 0 THEN ""
    ELSE IF Len(lines) = 1 THEN lines[1]
    ELSE lines[1] \o "\n" \o JoinLines(Tail(lines))

\* if (!parseResult.success) { ... return { ..., isError: true } }
InvalidArgumentsResult(issues) ==
    ErrorResult("Invalid tool arguments:\n" \o JoinLines(issues))

\* the validating handler from the settling of the awaited fetch to its
\* return
handleValidated(a) ==
    LET offers == fetchOffersFromSynchrony(a.category, a.maxPrice)
    IN  IF offers.threw
        THEN [escaped |-> FALSE,
              value |-> ErrorResult(
                  "Failed to fetch offers from Synchrony Marketplace: "
                      \o TypeErrorMessage)]
        ELSE IF Len(offers.offers) = 0
        THEN [escaped |-> FALSE,
              value |-> TextResult(
                  IF IsSome(a.maxPrice) /\ Get(a.maxPrice) # 0
                  THEN "No offers found in the \"" \o Get(a.category)
                           \o "\" category under $" \o toFixed2(Get(a.maxPrice)) \o "."
                  ELSE "No offers found in the \"" \o Get(a.category)
                           \o "\" category.")]
        ELSE [escaped |-> FALSE,
              value |-> Envelope(a.category, a.maxPrice, offers.offers)]

LegacyCategoryInputs == {"beds", "electronics", "furniture", " Sony ", "sale"}
LegacyMaxPriceInputs == {30000, 100000}

LegacyIndustryInputs == {<<"JEWELRY">>}

HandlerArgs ==
    [category : Opt(LegacyCategoryInputs), maxPrice : Opt(LegacyMaxPriceInputs),
     industry : Opt(LegacyIndustryInputs)]

RawCategoryInputs == {Undefined, Str(""), Str("electronics"), Str("sale"), Num(5)}
RawMaxPriceInputs == {Undefined, Num(30000), Num(0), Str("cheap")}

RawArgsInputs == [category : RawCategoryInputs, maxPrice : RawMaxPriceInputs]

---------------------------------------------------------------------------
(* The state machine: one invocation at a time, of fetchOffers or of the   *)
(* tool handler.                                                           *)

\* the invocations that may be in progress at once
CallIds == {1, 2}

\* the locals of one fetchOffers invocation
IdleCall ==
    [pc |-> "idle", input |-> NoQuery, upstream |-> Pending,
     allOffers |-> <<>>, ret |-> <<>>]

\* the SSE connections that may be open at once; transport.sessionId of the
\* transport made for connection c is SessionIdOf(c)
ConnIds == {1, 2}
SessionIdOf(c) == IF c = 1 THEN "session-1" ELSE "session-2"

\* activeSessions = new Map(): no entry
NoSessions == [sid \in {} |-> 0]

\* a connection: how far its GET /sse handler has come, whether its response
\* has emitted "close", and whether the handler's "close" listener is on it
NoConn == [state |-> "none", closed |-> FALSE, listening |-> FALSE]

\* the transport of a Streamable HTTP request: a new one for every request,
\* none of an SSE connection (those are the members of ConnIds); 0: none
NoTransport == 0
StreamableTransport == 3

\* a served request: the sessionId it carried, the status it was answered
\* with (0: left to the transport), the transport that handled it, the
\* activeSessions count it reported (GET /health), and activeSessions before
\* and after it
Request(kind, sessionId, status, transport, before, after) ==
    [kind |-> kind, sessionId |-> sessionId, status |-> status,
     transport |-> transport, before |-> before, after |-> after,
     activeSessions |-> IF kind = "health" THEN Cardinality(DOMAIN before)
                        ELSE 0]

NoRequest == Request("none", None, 0, NoTransport, NoSessions, NoSessions)

\* SYF_API_KEY = process.env.SYF_API_KEY ?? ""
ApiKeys == {"", "syf-live-key"}

NoEarlier == None

\* every variable of one invocation, as it is between invocations
Idle ==
    /\ pc = "idle"
    /\ input = NoQuery
    /\ upstream = Pending
    /\ allOffers = <<>>
    /\ ret = <<>>
    /\ args = NoArgs
    /\ result = NoResult
    /\ rawArgs = NoRawArgs
    /\ fetchInvoked = FALSE

\* the server started with no SYF_API_KEY in its environment
\* nothing in progress side by side, no SSE connection, no request served
Quiet ==
    /\ calls = [i \in CallIds |-> IdleCall]
    /\ activeSessions = NoSessions
    /\ conns = [c \in ConnIds |-> NoConn]
    /\ lastRequest = NoRequest

Init ==
    /\ Idle
    /\ apiKey = ""
    /\ dataset = MOCK_OFFERS
    /\ earlier = NoEarlier
    /\ Quiet

\* fetchOffers is called and suspends at `await axios.get(...)`
FetchOffersCall(q) ==
    /\ pc = "idle"
    /\ pc' = "fetch_await"
    /\ input' = q
    /\ upstream' = Pending
    /\ UNCHANGED <<allOffers, ret, handlerVars, serverVars, calls, httpVars>>

\* the rest of fetchOffers, once the awaited call has settled with `outcome`
FetchOffersResume(outcome) ==
    LET candidates == Candidates(outcome)
        filtered == FilterAndPaginate(input, candidates)
    IN  /\ upstream' = outcome
        /\ allOffers' = candidates
        /\ dataset' = IF TryFailed(outcome) THEN AfterSpread(dataset) ELSE dataset
        /\ ret' = filtered.offers
        /\ pc' = IF filtered.threw THEN "fetch_threw" ELSE "fetch_returned"
        /\ UNCHANGED <<input, handlerVars, apiKey, earlier, calls, httpVars>>

\* the upstream answers within the timeout
AxiosResolve(data) ==
    /\ pc = "fetch_await"
    /\ FetchOffersResume(Resolved(data))

\* the call fails: no connection, the 10 s timeout, a status outside 2xx
AxiosReject(reason) ==
    /\ pc = "fetch_await"
    /\ FetchOffersResume(Rejected(reason))

\* the tool handler is called and suspends at `await fetchOffersFromSynchrony`
HandleGetOffersCall(a) ==
    /\ pc = "idle"
    /\ pc' = "handler_await"
    /\ args' = a
    /\ fetchInvoked' = TRUE
    /\ UNCHANGED <<fetchVars, result, rawArgs, serverVars, calls, httpVars>>

\* the rest of the handler
HandleGetOffersResume ==
    /\ pc = "handler_await"
    /\ LET r == handleGetOffers(args)
       IN  /\ result' = r.value
           /\ pc' = IF r.escaped THEN "handler_threw" ELSE "handler_returned"
    /\ UNCHANGED <<fetchVars, args, rawArgs, fetchInvoked, serverVars, calls, httpVars>>

\* the validating handler is called: arguments that fail the schema are
\* answered at once, the others reach `await fetchOffersFromSynchrony`
ValidatingHandlerCall(raw) ==
    /\ pc = "idle"
    /\ rawArgs' = raw
    /\ LET parseResult == safeParse(raw)
       IN  IF ~parseResult.success
           THEN /\ result' = InvalidArgumentsResult(parseResult.issues)
                /\ pc' = "validating_returned"
                /\ UNCHANGED <<args, fetchInvoked>>
           ELSE /\ args' = parseResult.data
                /\ fetchInvoked' = TRUE
                /\ pc' = "validating_await"
                /\ UNCHANGED result
    /\ UNCHANGED <<fetchVars, serverVars, calls, httpVars>>

\* the rest of the validating handler
ValidatingHandlerResume ==
    /\ pc = "validating_await"
    /\ LET r == handleValidated(args)
       IN  /\ result' = r.value
           /\ pc' = IF r.escaped THEN "validating_threw" ELSE "validating_returned"
    /\ UNCHANGED <<fetchVars, args, rawArgs, fetchInvoked, serverVars, calls, httpVars>>

Settled ==
    {"fetch_returned", "fetch_threw", "handler_returned", "handler_threw",
     "validating_returned", "validating_threw"}

\* the caller has its answer; the next invocation starts from scratch
Finish ==
    /\ pc \in Settled
    /\ pc' = "idle"
    /\ input' = NoQuery
    /\ upstream' = Pending
    /\ allOffers' = <<>>
    /\ ret' = <<>>
    /\ args' = NoArgs
    /\ result' = NoResult
    /\ rawArgs' = NoRawArgs
    /\ fetchInvoked' = FALSE
    /\ UNCHANGED <<serverVars, calls, httpVars>>

Next ==
    \/ \E q \in Queries : FetchOffersCall(q)
    \/ \E data \in Bodies : AxiosResolve(data)
    \/ \E reason \in RejectReasons : AxiosReject(reason)
    \/ \E a \in HandlerArgs : HandleGetOffersCall(a)
    \/ HandleGetOffersResume
    \/ \E raw \in RawArgsInputs : ValidatingHandlerCall(raw)
    \/ ValidatingHandlerResume
    \/ Finish

Spec == Init /\ [][Next]_vars

---------------------------------------------------------------------------
(* A server session: the module is loaded once, with or without a key in   *)
(* the environment, and fetchOffers is invoked again and again. `earlier`  *)
(* keeps what the invocation before the current one was given and what it  *)
(* returned.                                                               *)

SessionQueries ==
    {NoQuery,
     [NoQuery EXCEPT !.industry = Some(<<"FURNITURE">>)],
     [NoQuery EXCEPT !.category = Some("electronics")],
     [NoQuery EXCEPT !.limitOffersCount = Some(1)],
     [NoQuery EXCEPT !.offset = Some(1)]}

SessionBodies ==
    {[kind |-> "null", offers |-> None],
     [kind |-> "object", offers |-> None],
     [kind |-> "object", offers |-> Some(ArrayOf(<<LiveOffers[1], LiveOffers[3]>>))]}
    \cup {[kind |-> "object", offers |-> Some(ArrayOf(l))] :
             l \in Selections(LiveOffers, 1)}

SessionInit ==
    /\ Idle
    /\ apiKey \in ApiKeys
    /\ dataset = MOCK_OFFERS
    /\ earlier = NoEarlier
    /\ Quiet

\* the caller has its answer and the next invocation may start
NextRequest ==
    /\ pc \in {"fetch_returned", "fetch_threw"}
    /\ earlier' = Some([input |-> input, upstream |-> upstream,
                        allOffers |-> allOffers, ret |-> ret,
                        threw |-> (pc = "fetch_threw")])
    /\ pc' = "idle"
    /\ input' = NoQuery
    /\ upstream' = Pending
    /\ allOffers' = <<>>
    /\ ret' = <<>>
    /\ UNCHANGED <<handlerVars, apiKey, dataset, calls, httpVars>>

SessionNext ==
    \/ \E q \in SessionQueries : FetchOffersCall(q)
    \/ \E data \in SessionBodies : AxiosResolve(data)
    \/ \E reason \in RejectReasons : AxiosReject(reason)
    \/ NextRequest

SessionSpec == SessionInit /\ [][SessionNext]_vars

---------------------------------------------------------------------------
(* Progress. axios.get is called with timeout: 10_000, so the awaited call *)
(* settles: with a response, or with a rejection once the ten seconds have *)
(* passed. Nothing obliges a caller to start an invocation.                *)

AxiosSettles ==
    /\ pc = "fetch_await"
    /\ \/ \E data \in Bodies : AxiosResolve(data)
       \/ \E reason \in RejectReasons : AxiosReject(reason)

LiveNext ==
    \/ \E q \in SessionQueries : FetchOffersCall(q)
    \/ AxiosSettles
    \/ Finish

LiveSpec == Init /\ [][LiveNext]_vars /\ WF_vars(AxiosSettles)

---------------------------------------------------------------------------
(* Invocations side by side. The server is one thread: an invocation runs  *)
(* without interruption up to `await axios.get(...)` and again from the    *)
(* settling of that call to its return, and other invocations may run in   *)
(* between. Each has its own locals; MOCK_OFFERS is shared.                *)

\* invocation i is called and suspends at the await
ConcurrentCall(i, q) ==
    /\ calls[i].pc = "idle"
    /\ calls' = [calls EXCEPT ![i] = [IdleCall EXCEPT !.pc = "fetch_await",
                                                      !.input = q]]
    /\ UNCHANGED <<pc, fetchVars, handlerVars, serverVars, httpVars>>

\* the awaited call of invocation i settles and the invocation runs to its
\* end
ConcurrentResume(i, outcome) ==
    /\ calls[i].pc = "fetch_await"
    /\ LET candidates == Candidates(outcome)
           filtered == FilterAndPaginate(calls[i].input, candidates)
       IN  /\ calls' = [calls EXCEPT ![i] =
                   [pc |-> IF filtered.threw THEN "fetch_threw" ELSE "fetch_returned",
                    input |-> calls[i].input,
                    upstream |-> outcome,
                    allOffers |-> candidates,
                    ret |-> filtered.offers]]
           /\ dataset' = IF TryFailed(outcome) THEN AfterSpread(dataset) ELSE dataset
    /\ UNCHANGED <<pc, fetchVars, handlerVars, apiKey, earlier, httpVars>>

\* the caller of invocation i has its answer
ConcurrentFinish(i) ==
    /\ calls[i].pc \in {"fetch_returned", "fetch_threw"}
    /\ calls' = [calls EXCEPT ![i] = IdleCall]
    /\ UNCHANGED <<pc, fetchVars, handlerVars, serverVars, httpVars>>

ConcurrentNext ==
    \E i \in CallIds :
        \/ \E q \in SessionQueries : ConcurrentCall(i, q)
        \/ \E data \in SessionBodies : ConcurrentResume(i, Resolved(data))
        \/ \E reason \in RejectReasons : ConcurrentResume(i, Rejected(reason))
        \/ ConcurrentFinish(i)

ConcurrentSpec == Init /\ [][ConcurrentNext]_vars

---------------------------------------------------------------------------
(* The HTTP endpoints of server.ts. A GET /sse handler suspends once, at   *)
(* await server.connect(transport); the response's "close" event is        *)
(* emitted by the runtime whenever the client goes away, and calls the     *)
(* listeners that are registered on the response at that moment.           *)

\* activeSessions.set(sessionId, { transport, server })
SessionsSet(sessions, sessionId, c) ==
    [sid \in DOMAIN sessions \cup {sessionId} |->
        IF sid = sessionId THEN c ELSE sessions[sid]]

\* activeSessions.delete(sessionId)
SessionsDelete(sessions, sessionId) ==
    [sid \in DOMAIN sessions \ {sessionId} |-> sessions[sid]]

\* POST /messages that hands the message to any registered transport when
\* the requested session is not found
postMessages_AnySession(sessionId, sessions) ==
    IF sessionId = None \/ sessionId = Some("")
    THEN [status |-> 400, transport |-> NoTransport]
    ELSE IF sessionId[1] \in DOMAIN sessions
         THEN [status |-> 0, transport |-> sessions[sessionId[1]]]
         ELSE IF DOMAIN sessions = {}
              THEN [status |-> 404, transport |-> NoTransport]
              ELSE [status |-> 0,
                    transport |-> sessions[CHOOSE sid \in DOMAIN sessions : TRUE]]

\* POST /messages: 400 when !sessionId (absent or empty), 404 when
\* activeSessions.get(sessionId) is undefined, else
\* session.transport.handlePostMessage(req, res)
postMessages(sessionId, sessions) ==
    IF sessionId = None \/ sessionId = Some("")
    THEN [status |-> 400, transport |-> NoTransport]
    ELSE IF sessionId[1] \notin DOMAIN sessions
         THEN [status |-> 404, transport |-> NoTransport]
         ELSE [status |-> 0, transport |-> sessions[sessionId[1]]]

\* req.query.sessionId of a POST /messages
SessionIdInputs ==
    {None, Some(""), Some("session-9")} \cup {Some(SessionIdOf(c)) : c \in ConnIds}

\* GET /sse: the transport and the server are made, and the handler suspends
\* at await server.connect(transport)
SseOpen(c) ==
    /\ conns[c].state = "none"
    /\ conns' = [conns EXCEPT ![c].state = "connecting"]
    /\ UNCHANGED <<pc, fetchVars, handlerVars, serverVars, calls,
                   activeSessions, lastRequest>>

\* server.connect resolves: the session is registered under
\* transport.sessionId, then the "close" listener is put on the response
SseConnected(c) ==
    /\ conns[c].state = "connecting"
    /\ activeSessions' = SessionsSet(activeSessions, SessionIdOf(c), c)
    /\ conns' = [conns EXCEPT ![c].state = "registered", ![c].listening = TRUE]
    /\ UNCHANGED <<pc, fetchVars, handlerVars, serverVars, calls, lastRequest>>

\* server.connect rejects: the handler ends at the await
SseConnectFails(c) ==
    /\ conns[c].state = "connecting"
    /\ conns' = [conns EXCEPT ![c].state = "failed"]
    /\ UNCHANGED <<pc, fetchVars, handlerVars, serverVars, calls,
                   activeSessions, lastRequest>>

\* the response emits "close" (once): the handler's listener, if it is
\* registered by now, deletes the session
SseClose(c) ==
    /\ conns[c].state # "none"
    /\ ~conns[c].closed
    /\ conns' = [conns EXCEPT ![c].closed = TRUE]
    /\ activeSessions' = IF conns[c].listening
                         THEN SessionsDelete(activeSessions, SessionIdOf(c))
                         ELSE activeSessions
    /\ UNCHANGED <<pc, fetchVars, handlerVars, serverVars, calls, lastRequest>>

\* POST /messages?sessionId=...
PostMessages(sessionId) ==
    /\ LET answer == postMessages(sessionId, activeSessions)
       IN  lastRequest' = Request("messages", sessionId, answer.status,
                                  answer.transport, activeSessions, activeSessions)
    /\ UNCHANGED <<pc, fetchVars, handlerVars, serverVars, calls,
                   activeSessions, conns>>

\* POST /mcp and GET /mcp: a new server and a new stateless transport handle
\* the request
McpRequest ==
    /\ lastRequest' = Request("mcp", None, 0, StreamableTransport,
                              activeSessions, activeSessions)
    /\ UNCHANGED <<pc, fetchVars, handlerVars, serverVars, calls,
                   activeSessions, conns>>

\* GET /health: activeSessions: activeSessions.size
Health ==
    /\ lastRequest' = Request("health", None, 200, NoTransport,
                              activeSessions, activeSessions)
    /\ UNCHANGED <<pc, fetchVars, handlerVars, serverVars, calls,
                   activeSessions, conns>>

HttpNext ==
    \/ \E c \in ConnIds : SseOpen(c)
    \/ \E c \in ConnIds : SseConnected(c)
    \/ \E c \in ConnIds : SseConnectFails(c)
    \/ \E c \in ConnIds : SseClose(c)
    \/ \E sessionId \in SessionIdInputs : PostMessages(sessionId)
    \/ McpRequest
    \/ Health

HttpSpec == Init /\ [][HttpNext]_vars

---------------------------------------------------------------------------
(* Vocabulary of the properties.                                           *)

FetchSettled == pc \in {"fetch_returned", "fetch_threw"}
FetchReturned == pc = "fetch_returned"
HandlerSettled == pc \in {"handler_returned", "handler_threw"}

\* the offer passes every active filter of q
Matches(q, offer) ==
    \A i \in 1..Len(StageOrder) :
        StageActive(StageOrder[i], q) => StagePredicate(StageOrder[i], q, offer) = "keep"

\* the offers of `list` that pass every active filter of q, in list order
Kept(q, list) == SelectSeq(list, LAMBDA o : Matches(q, o))

StartOf(q) == IF IsSome(q.offset) THEN Get(q.offset) ELSE 0
LimitOf(q, n) == IF IsSome(q.limitOffersCount) THEN Get(q.limitOffersCount) ELSE n

\* the page [start, start + limit) of a list
PageOf(q, list) ==
    LET n == Len(list)
        size == Min(LimitOf(q, n), Max(0, n - StartOf(q)))
    IN  [i \in 1..size |-> list[StartOf(q) + i]]

\* s can be obtained from t by deleting elements
RECURSIVE IsSubsequence(_, _)
IsSubsequence(s, t) ==
    IF s = <<>> THEN TRUE
    ELSE IF t = <<>> THEN FALSE
    ELSE IF Head(s) = Head(t) THEN IsSubsequence(Tail(s), Tail(t))
    ELSE IsSubsequence(s, Tail(t))

\* the offers of r1 that also occur in r2, in the order of r1
Intersection(r1, r2) == SelectSeq(r1, LAMBDA o : o \in Range(r2))

\* Every element of a candidate list is an object of its own: the list with
\* each offer marked by its position, so that equal offers stay apart.
Tagged(list) == [i \in 1..Len(list) |-> list[i] @@ [pos |-> i]]
Untagged(list) ==
    [i \in 1..Len(list) |-> [f \in DOMAIN list[i] \ {"pos"} |-> list[i][f]]]

\* the query that sets the fields of q named in `fields`, and no other
Restrict(q, fields) == [f \in QueryFields |-> IF f \in fields THEN q[f] ELSE None]

PaginationFree(q) == q.offset = None /\ q.limitOffersCount = None

\* the stages that read offer.brand
BrandStages == {"industry", "region", "network", "brand", "featured"}

---------------------------------------------------------------------------
(* Properties.                                                             *)

\* C1: fetchOffers never fails observably: whatever the upstream outcome and
\* the query, the invocation ends by returning a list, never by raising.
C1_FetchOffersNeverRaises == FetchSettled => FetchReturned

C3_NoOffersListIsEmpty ==
    (/\ FetchSettled
     /\ upstream.state = "resolved"
     /\ upstream.data.kind # "null"
     /\ (upstream.data.offers = None \/ ~Get(upstream.data.offers).isArray)) =>
        /\ FetchReturned
        /\ allOffers = <<>>
        /\ ret = <<>>

C3_Witness ==
    /\ FetchReturned
    /\ upstream.state = "resolved"
    /\ upstream.data.kind = "object"
    /\ upstream.data.offers = Some(NotAnArray)
    /\ FieldsSet(input) = {}
    /\ ret = <<>>

\* C4: AND-composition on the filter fields. The query of a returned
\* invocation is the union of Q1 and Q2, for every way of splitting its
\* fields between them: applying Q1 alone and Q2 alone to the same candidate
\* list gives two results, and the result of the invocation is their
\* intersection.
C4_AndComposition ==
    (FetchReturned /\ PaginationFree(input)) =>
        \A fields \in SUBSET FieldsSet(input) :
            LET r1 == FilterAndPaginate(Restrict(input, fields), Tagged(allOffers))
                r2 == FilterAndPaginate(Restrict(input, FieldsSet(input) \ fields),
                                        Tagged(allOffers))
            IN  /\ ~r1.threw
                /\ ~r2.threw
                /\ ret = Untagged(Intersection(r1.offers, r2.offers))

\* The same where the three applications return. This is what the code keeps
\* of C4; it is no statement of C4, which promises a result for every query.
AndCompositionWhereAllReturn ==
    (FetchSettled /\ PaginationFree(input)) =>
        \A fields \in SUBSET FieldsSet(input) :
            LET r1 == FilterAndPaginate(Restrict(input, fields), Tagged(allOffers))
                r2 == FilterAndPaginate(Restrict(input, FieldsSet(input) \ fields),
                                        Tagged(allOffers))
            IN  (~r1.threw /\ ~r2.threw) =>
                    /\ FetchReturned
                    /\ ret = Untagged(Intersection(r1.offers, r2.offers))

\* With a pagination field in the query the page is taken by position, and
\* the equality of C4 fails although every application returns.
AndCompositionWithPagination ==
    FetchReturned =>
        \A fields \in SUBSET FieldsSet(input) :
            LET r1 == FilterAndPaginate(Restrict(input, fields), Tagged(allOffers))
                r2 == FilterAndPaginate(Restrict(input, FieldsSet(input) \ fields),
                                        Tagged(allOffers))
            IN  (~r1.threw /\ ~r2.threw) =>
                    ret = Untagged(Intersection(r1.offers, r2.offers))

\* C5 as stated: an offer without brand is left out of the result whenever
\* the query supplies a value, whatever it is, for a brand-dependent filter.
C5_AbsenceSafetyAnyValue ==
    FetchReturned =>
        \A i \in 1..Len(allOffers) :
            (/\ allOffers[i].brand = None
             /\ \E s \in BrandStages : IsSome(input[s])) =>
                allOffers[i] \notin Range(ret)

\* C5 amended: an offer without brand is dropped, without raising, by every
\* brand-dependent filter that is active (a non-empty industry or network
\* list, a region, a non-empty brand string, featured true or false), and is
\* then no part of the result.
C5_AbsenceSafetyActiveFilters ==
    FetchSettled =>
        \A i \in 1..Len(allOffers) :
            allOffers[i].brand = None =>
                \A s \in BrandStages :
                    StageActive(s, input) =>
                        /\ StagePredicate(s, input, allOffers[i]) = "drop"
                        /\ FetchReturned => allOffers[i] \notin Range(ret)

C5_Witness ==
    /\ FetchReturned
    /\ Len(allOffers) = 2
    /\ allOffers[1].brand = None
    /\ input.featured = Some(FALSE)
    /\ Len(ret) = 1

\* C6: with every offer holding a title, no active filter raises on an offer,
\* whichever optional fields the offer lacks.
C6_NoStageRaises ==
    FetchSettled =>
        \A i \in 1..Len(allOffers) :
            \A j \in 1..Len(StageOrder) :
                StageActive(StageOrder[j], input) =>
                    StagePredicate(StageOrder[j], input, allOffers[i]) # "throw"

\* C7: the result is the page [start, start + limit) of the fully filtered
\* list of length N: min(limit, max(0, N - start)) offers, none when
\* offset >= N, and the whole filtered list when offset is 0 or unset and no
\* limit is given.
C7_PaginationSlice ==
    FetchReturned =>
        LET full == Kept(input, allOffers)
            n == Len(full)
            start == StartOf(input)
            limit == LimitOf(input, n)
        IN  /\ ret = [i \in 1..Min(limit, Max(0, n - start)) |-> full[start + i]]
            /\ Len(ret) = Min(limit, Max(0, n - start))
            /\ start >= n => ret = <<>>
            /\ (start = 0 /\ input.limitOffersCount = None) => ret = full

C7_Witness ==
    /\ FetchReturned
    /\ input.offset = Some(1)
    /\ input.limitOffersCount = Some(2)
    /\ Len(Kept(input, allOffers)) = 6
    /\ ret = <<allOffers[2], allOffers[3]>>

\* C8: the returned list is a sub-sequence of the candidate list.
C8_OrderPreserved == FetchReturned => IsSubsequence(ret, allOffers)

C8_Witness ==
    /\ FetchReturned
    /\ allOffers = MOCK_OFFERS
    /\ ret = <<MOCK_OFFERS[2], MOCK_OFFERS[4]>>

---------------------------------------------------------------------------
(* Properties of the tool handler.                                         *)

\* the three outcomes of a tool call
IsToolError(r) == r.isError = Some(TRUE)

IsEmptyMessage(r) ==
    /\ r.isError = None
    /\ r.payload = None
    /\ Len(r.text) >= 19
    /\ SubSeq(r.text, 1, 19) = "No offers found in "

IsPopulatedEnvelope(r) ==
    /\ r.isError = None
    /\ IsSome(r.payload)
    /\ Len(Get(r.payload).offers) >= 1

OutcomesOf(r) ==
    {k \in {"envelope", "empty", "error"} :
        \/ k = "envelope" /\ IsPopulatedEnvelope(r)
        \/ k = "empty" /\ IsEmptyMessage(r)
        \/ k = "error" /\ IsToolError(r)}

\* C9: every call of the handler returns, with exactly one of a populated
\* envelope, an empty-result message and a result flagged as a tool error;
\* no exception leaves the handler.
C9_ThreeOutcomes ==
    HandlerSettled =>
        /\ pc = "handler_returned"
        /\ Cardinality(OutcomesOf(result)) = 1

C9_Witness ==
    /\ pc = "handler_returned"
    /\ args.category = None
    /\ OutcomesOf(result) = {"error"}

\* C10: an empty fetched list gives the empty-result message, which names
\* the category and is not flagged isError; the populated envelope is
\* returned exactly when the list is not empty.
C10_ZeroResultsIsNoError ==
    (pc = "handler_returned" /\ IsSome(args.category)) =>
        LET matching ==
                {i \in 1..Len(LEGACY_MOCK_OFFERS) :
                    /\ \/ includes(toLowerCase(LEGACY_MOCK_OFFERS[i].title),
                                   trim(toLowerCase(Get(args.category))))
                       \/ includes(toLowerCase(LEGACY_MOCK_OFFERS[i].link),
                                   trim(toLowerCase(Get(args.category))))
                    /\ IsSome(args.maxPrice) =>
                           LEGACY_MOCK_OFFERS[i].price <= Get(args.maxPrice)}
        IN  /\ matching = {} =>
                /\ IsEmptyMessage(result)
                /\ ~IsToolError(result)
                /\ includes(result.text, "\"" \o Get(args.category) \o "\"")
            /\ IsPopulatedEnvelope(result) <=> matching # {}
            /\ IsPopulatedEnvelope(result) =>
                   Get(result.payload).totalOffers = Cardinality(matching)

C10_Witness ==
    /\ pc = "handler_returned"
    /\ args.category = Some("beds")
    /\ args.maxPrice = Some(30000)
    /\ result = TextResult("No offers found in \"beds\" under $300.00.")

\* the legacy offers that match the arguments of a call, in dataset order
LegacyMatching(a) ==
    SelectSeq(LEGACY_MOCK_OFFERS, LAMBDA offer :
        /\ \/ includes(toLowerCase(offer.title), trim(toLowerCase(Get(a.category))))
           \/ includes(toLowerCase(offer.link), trim(toLowerCase(Get(a.category))))
        /\ IsSome(a.maxPrice) => offer.price <= Get(a.maxPrice))

\* C11: a call whose fetch raises (the category is undefined, so that
\* category.toLowerCase() is a TypeError) ends with a result flagged isError
\* that carries the error's message; no exception leaves the handler; and a
\* result is flagged only when the fetch raised.
C11_ExceptionsAreFlagged ==
    HandlerSettled =>
        /\ pc = "handler_returned"
        /\ IsToolError(result) <=> args.category = None
        /\ args.category = None =>
               result.text = "Failed to fetch offers: " \o TypeErrorMessage

C11_Witness ==
    /\ pc = "handler_returned"
    /\ args = [category |-> None, maxPrice |-> Some(30000), industry |-> None]
    /\ result = ErrorResult("Failed to fetch offers: " \o TypeErrorMessage)

\* C12: in every populated envelope totalOffers is the length of the offers
\* list, and the list holds the matching offers in the order of the dataset
\* the fetch filtered.
C12_TotalOffersIsListLength ==
    (pc = "handler_returned" /\ IsPopulatedEnvelope(result)) =>
        /\ Get(result.payload).totalOffers = Len(Get(result.payload).offers)
        /\ Get(result.payload).offers = LegacyMatching(args)

C12_Witness ==
    /\ pc = "handler_returned"
    /\ args = [category |-> Some("electronics"), maxPrice |-> Some(100000),
               industry |-> None]
    /\ IsPopulatedEnvelope(result)
    /\ Get(result.payload).totalOffers = 1
    /\ Get(result.payload).offers[1].title = "Sony WH-1000XM5 Headphones"

---------------------------------------------------------------------------
(* The result projector of the offers tool. The handler that runs the      *)
(* pipeline and reduces its offers is described by the design (section 4.3)*)
(* and by README "Data Flow" step 5; the reduction is modelled from there. *)

\* the reduced brand: name, featured, industries, network, regions
formatBrand(brand) ==
    [name |-> brand.name,
     featured |-> brand.featured,
     industries |-> IF IsSome(brand.industry)
                    THEN Some([k \in 1..Len(Get(brand.industry)) |->
                                   Get(brand.industry)[k].name])
                    ELSE None,
     network |-> IF IsSome(brand.network) THEN Get(brand.network).name ELSE None,
     regions |-> brand.region]

\* a projection that hands the offer over as it is
formatOfferForChatGPT_PassThrough(offer) == offer

\* the reduced, client-facing offer: the identifier, the title, the offer
\* type by its name and the reduced brand; slotId, groupId and offerImage
\* are not copied
formatOfferForChatGPT(offer) ==
    [offerId |-> offer.offerId,
     title |-> offer.title,
     offerType |-> IF IsSome(offer.offerType) THEN Get(offer.offerType).name ELSE None,
     brand |-> IF IsSome(offer.brand) THEN Some(formatBrand(Get(offer.brand))) ELSE None]

\* the offers of a tool response built from the offers the pipeline returned
projectOffers(filteredOffers) ==
    [k \in 1..Len(filteredOffers) |-> formatOfferForChatGPT(filteredOffers[k])]

InternalFields == {"slotId", "groupId", "offerImage"}

\* C13: no offer of a tool response carries slotId, groupId or offerImage,
\* whichever offers the pipeline returned and whether the live response or
\* the fallback dataset supplied them; the reduced offer still names the
\* offer it was made from.
C13_InternalIdsNeverProjected ==
    FetchReturned =>
        \A k \in 1..Len(ret) :
            /\ DOMAIN projectOffers(ret)[k] \cap InternalFields = {}
            /\ projectOffers(ret)[k].offerId = ret[k].offerId
            /\ projectOffers(ret)[k].title = ret[k].title

\* a live offer that carries both identifiers and an image was returned
C13_Witness ==
    /\ FetchReturned
    /\ upstream.state = "resolved"
    /\ Len(ret) > 0
    /\ IsSome(ret[1].slotId) /\ IsSome(ret[1].groupId) /\ IsSome(ret[1].offerImage)
    /\ projectOffers(ret)[1].offerId = Some("live-4")

---------------------------------------------------------------------------
(* Properties of a session.                                                *)

\* the invocation before the current one has completed and was given the
\* same query
SameInputAsEarlier == IsSome(earlier) /\ Get(earlier).input = input

---------------------------------------------------------------------------
(* Progress of an invocation.                                              *)

\* every invocation of fetchOffers ends, by returning or by raising
EveryFetchSettles == (pc = "fetch_await") ~> FetchSettled

\* C16: every invocation of fetchOffers eventually returns a list.
C16_EveryFetchReturnsAList == (pc = "fetch_await") ~> FetchReturned


---------------------------------------------------------------------------
(* The API key.                                                            *)

\* C17: with SYF_API_KEY missing or empty, the candidate list of every
\* request is the MOCK_OFFERS dataset.
C17_MockOffersWithoutKey ==
    (FetchSettled /\ apiKey = "") => allOffers = MOCK_OFFERS


---------------------------------------------------------------------------
(* Validation of the arguments.                                            *)

\* the arguments break the input schema: category is required and is a
\* non-empty string; maxPrice, when given, is a positive number
FailsSchema(raw) ==
    \/ raw.category.type # "string"
    \/ raw.category.str = ""
    \/ /\ raw.maxPrice.type # "undefined"
       /\ raw.maxPrice.type # "number" \/ raw.maxPrice.num <= 0

Validating == pc \in {"validating_await", "validating_returned", "validating_threw"}

---------------------------------------------------------------------------
(* The documented sample queries on the fallback dataset.                  *)

\* the brand names of a list of offers, in its order
BrandNames(list) == [k \in 1..Len(list) |-> Get(Get(list[k].brand).name)]

\* fetchOffers has ended on the fallback dataset
SettledOnFallback == FetchSettled /\ TryFailed(upstream)

\* the five sample queries of the design on the six fallback offers
SampleQueriesOnFallback ==
    SettledOnFallback =>
        /\ input = [NoQuery EXCEPT !.featured = Some(TRUE)] =>
               /\ FetchReturned
               /\ BrandNames(ret) = <<"Ashley", "Samsung", "Best Buy", "Lowe's">>
        /\ input = [NoQuery EXCEPT !.network = Some(<<"SYF CAR CARE">>)] =>
               /\ FetchReturned
               /\ BrandNames(ret) = <<"Express Oil Change & Tire Engineers">>
        /\ input = [NoQuery EXCEPT !.industry = Some(<<"JEWELRY">>)] =>
               FetchReturned /\ ret = <<>>
        /\ input = [NoQuery EXCEPT !.brand = Some("best")] =>
               FetchReturned /\ BrandNames(ret) = <<"Best Buy">>
        /\ input = [NoQuery EXCEPT !.offset = Some(10),
                                   !.limitOffersCount = Some(5)] =>
               FetchReturned /\ ret = <<>>

\* the tool was called with { industry: ["JEWELRY"] } and has answered
AnsweredJewelryQuery ==
    /\ HandlerSettled
    /\ args = [category |-> None, maxPrice |-> None, industry |-> Some(<<"JEWELRY">>)]

\* C19: the five sample queries return the documented offers, and the
\* answer to { industry: ["JEWELRY"] } is the empty-result message, naming
\* "JEWELRY".
C19_SampleQueries ==
    /\ SampleQueriesOnFallback
    /\ AnsweredJewelryQuery =>
           IsEmptyMessage(result) /\ includes(result.text, "JEWELRY")

\* C20: on the mock dataset { industry: ["FURNITURE"] } returns the Ashley
\* and Rooms To Go offers, { offerType: ["FINANCING OFFERS"] } the Rooms To
\* Go and Best Buy offers, { industry: ["FURNITURE"], region: "NORTHEAST" }
\* the Ashley offer alone and { category: "electronics" } the Samsung and
\* Best Buy offers.
C20_MockDatasetQueries ==
    SettledOnFallback =>
        /\ input = [NoQuery EXCEPT !.industry = Some(<<"FURNITURE">>)] =>
               FetchReturned /\ BrandNames(ret) = <<"Ashley", "Rooms To Go">>
        /\ input = [NoQuery EXCEPT !.offerType = Some(<<"FINANCING OFFERS">>)] =>
               FetchReturned /\ BrandNames(ret) = <<"Rooms To Go", "Best Buy">>
        /\ input = [NoQuery EXCEPT !.industry = Some(<<"FURNITURE">>),
                                   !.region = Some("NORTHEAST")] =>
               FetchReturned /\ BrandNames(ret) = <<"Ashley">>
        /\ input = [NoQuery EXCEPT !.category = Some("electronics")] =>
               FetchReturned /\ BrandNames(ret) = <<"Samsung", "Best Buy">>

\* the region query was served from the mock dataset
C20_Witness ==
    /\ FetchReturned
    /\ upstream.state = "rejected"
    /\ input = [NoQuery EXCEPT !.industry = Some(<<"FURNITURE">>),
                               !.region = Some("NORTHEAST")]
    /\ Len(ret) = 1
    /\ ret[1].offerId = Some("offer-furniture-001")


\* C21: on the mock dataset the query { network: ["SYNCHRONY CAR CARE"] },
\* whose value is one of NETWORK_VALUES, returns the Express Oil Change
\* offer and no other.
C21_SynchronyCarCareOnMock ==
    (SettledOnFallback
         /\ input = [NoQuery EXCEPT !.network = Some(<<"SYNCHRONY CAR CARE">>)]) =>
        /\ FetchReturned
        /\ BrandNames(ret) = <<"Express Oil Change & Tire Engineers">>


---------------------------------------------------------------------------
(* The single filter stages.                                               *)

\* the offer's brand lists a region equal to `region`, ignoring case
RegionEquals(offer, region) ==
    /\ IsSome(offer.brand)
    /\ IsSome(Get(offer.brand).region)
    /\ \E r \in Range(Get(Get(offer.brand).region)) :
           toUpperCase(r) = toUpperCase(region)

\* C22: with query.region set, the offers kept are exactly those whose
\* brand.region list holds an element equal to the requested region,
\* ignoring case: every returned offer lists that region, and with region
\* as the only field set the returned list is the candidate list cut down
\* to those offers.
C22_RegionFilterExact ==
    (FetchReturned /\ IsSome(input.region)) =>
        /\ \A k \in 1..Len(ret) : RegionEquals(ret[k], Get(input.region))
        /\ FieldsSet(input) = {"region"} =>
               ret = SelectSeq(allOffers,
                               LAMBDA offer : RegionEquals(offer, Get(input.region)))


\* the offer has a brand whose featured flag is the boolean `featured`
FeaturedEquals(offer, featured) ==
    /\ IsSome(offer.brand)
    /\ Get(offer.brand).featured = Some(featured)

\* C23: the featured stage runs whenever query.featured is set, to true or
\* to false, and then keeps exactly the offers whose brand.featured is that
\* boolean: every returned offer has it, and with featured as the only
\* field set the call returns, with the candidate list cut down to those
\* offers, so that offers without a brand or without brand.featured are
\* left out for true and for false alike. With no field set the candidate
\* list is returned whole.
C23_FeaturedFilter ==
    /\ (FetchReturned /\ IsSome(input.featured)) =>
           \A k \in 1..Len(ret) : FeaturedEquals(ret[k], Get(input.featured))
    /\ (FetchSettled /\ FieldsSet(input) = {"featured"}) =>
           /\ FetchReturned
           /\ ret = SelectSeq(allOffers,
                              LAMBDA offer : FeaturedEquals(offer, Get(input.featured)))
    /\ (FetchSettled /\ input = NoQuery) => FetchReturned /\ ret = allOffers

\* featured = false was asked of a live list holding a featured offer, an
\* offer without a brand and an offer that is not featured, and only the
\* last one came back
C23_Witness ==
    /\ FetchReturned
    /\ input = [NoQuery EXCEPT !.featured = Some(FALSE)]
    /\ Len(allOffers) = 3
    /\ allOffers[1].offerId = Some("live-4")
    /\ allOffers[2].offerId = Some("live-1")
    /\ allOffers[3].offerId = Some("live-5")
    /\ Len(ret) = 1 /\ ret[1].offerId = Some("live-5")


\* the lowercased, trimmed category is a substring of an industry name, of
\* the brand name or of the title of the offer
CategoryMatches(offer, category) ==
    LET cat == trim(toLowerCase(category))
    IN  \/ /\ IsSome(offer.brand)
           /\ IsSome(Get(offer.brand).industry)
           /\ \E ind \in Range(Get(Get(offer.brand).industry)) :
                  /\ IsSome(ind.name)
                  /\ includes(toLowerCase(Get(ind.name)), cat)
        \/ /\ IsSome(offer.brand)
           /\ IsSome(Get(offer.brand).name)
           /\ includes(toLowerCase(Get(Get(offer.brand).name)), cat)
        \/ includes(toLowerCase(offer.title), cat)

\* the category filter wherever the invocation returns
CategoryFilterWhereReturned ==
    (FetchReturned /\ IsSome(input.category)) =>
        /\ \A k \in 1..Len(ret) : CategoryMatches(ret[k], Get(input.category))
        /\ FieldsSet(input) = {"category"} =>
               ret = SelectSeq(allOffers,
                               LAMBDA offer : CategoryMatches(offer, Get(input.category)))

\* C24: with query.category set, an offer is kept if and only if the
\* category matches one of its industry names, its brand name or its title
\* (an offer with no brand: its title); with category as the only field set
\* the call returns the candidate list cut down to the matching offers, and
\* together with other filters every returned offer matches.
C24_CategoryFilter ==
    /\ CategoryFilterWhereReturned
    /\ (FetchSettled /\ FieldsSet(input) = {"category"}) => FetchReturned


\* the name of `named` (an offerType or a network) matches one of the
\* requested values, ignoring case
NameMatchesAny(named, wanted) ==
    /\ IsSome(named)
    /\ IsSome(Get(named).name)
    /\ \E w \in Range(wanted) :
           includes(toUpperCase(Get(Get(named).name)), toUpperCase(w))

OfferTypeMatches(offer, types) == NameMatchesAny(offer.offerType, types)

NetworkMatches(offer, networks) ==
    IsSome(offer.brand) /\ NameMatchesAny(Get(offer.brand).network, networks)

\* the offers of `list` that a stage with the requested values keeps: all of
\* them when no value is requested
KeptByNames(list, wanted, matches(_, _)) ==
    IF wanted = <<>> THEN list
    ELSE SelectSeq(list, LAMBDA offer : matches(offer, wanted))

\* the offer-type and network filters wherever the invocation returns
TypeAndNetworkFiltersWhereReturned ==
    FetchReturned =>
        /\ StageActive("offerType", input) =>
               \A k \in 1..Len(ret) : OfferTypeMatches(ret[k], Get(input.offerType))
        /\ StageActive("network", input) =>
               \A k \in 1..Len(ret) : NetworkMatches(ret[k], Get(input.network))
        /\ FieldsSet(input) = {"offerType"} =>
               ret = KeptByNames(allOffers, Get(input.offerType), OfferTypeMatches)
        /\ FieldsSet(input) = {"network"} =>
               ret = KeptByNames(allOffers, Get(input.network), NetworkMatches)

\* C25: with a non-empty query.offerType (query.network) an offer is kept if
\* and only if its offerType.name (brand.network.name) matches a requested
\* value ignoring case, an offer without offerType (network) is never kept,
\* and an empty or absent list keeps every offer: with one of the two as the
\* only field set the call returns the candidate list cut down accordingly.
C25_OfferTypeAndNetworkFilters ==
    /\ TypeAndNetworkFiltersWhereReturned
    /\ (FetchSettled /\ FieldsSet(input) \in {{"offerType"}, {"network"}}) =>
           FetchReturned


---------------------------------------------------------------------------
(* The order of the stages.                                                *)

\* the stages whose guard holds for q, in the order of the code; the other
\* stages leave the list as it is wherever they stand
ActiveStages(q) == SelectSeq(StageOrder, LAMBDA stage : StageActive(stage, q))

\* the orderings of the elements of a sequence without repetitions
Orderings(seq) ==
    {order \in [1..Len(seq) -> Range(seq)] : Range(order) = Range(seq)}

\* what fetchOffers would give with its active stages run in `order`
ResultInOrder(order, q, candidates) ==
    Paginate(q, ApplyStages(order, q, Working(candidates)))

\* what the invocation gave
Outcome == [threw |-> pc = "fetch_threw", offers |-> ret]

\* the orderings of the stages agree whenever each of them returns
OrderIndependentWhereAllReturn ==
    FetchSettled =>
        LET results == {ResultInOrder(order, input, allOffers) :
                            order \in Orderings(ActiveStages(input))}
        IN  (\A r \in results : ~r.threw) => results = {Outcome}

\* C26: running the predicate stages in any order, followed by pagination,
\* gives what the fixed order gives.
C26_StageOrderIndependent ==
    FetchSettled =>
        \A order \in Orderings(ActiveStages(input)) :
            ResultInOrder(order, input, allOffers) = Outcome


---------------------------------------------------------------------------
(* Invocations side by side.                                               *)

\* the candidate list of an invocation that runs alone
CandidatesAlone(outcome) ==
    IF TryFailed(outcome) THEN MOCK_OFFERS ELSE OffersOfBody(outcome.data)

\* C27: however concurrent invocations interleave, the shared fallback
\* dataset keeps its six offers, and every invocation that has ended has the
\* candidate list and the result (the returned list, or the exception) that
\* it would have running alone with its query and its upstream outcome.
C27_ConcurrentInvocationsIsolated ==
    /\ dataset = MOCK_OFFERS
    /\ \A i \in CallIds :
           calls[i].pc \in {"fetch_returned", "fetch_threw"} =>
               LET alone == FilterAndPaginate(calls[i].input,
                                              CandidatesAlone(calls[i].upstream))
               IN  /\ calls[i].allOffers = CandidatesAlone(calls[i].upstream)
                   /\ calls[i].ret = alone.offers
                   /\ (calls[i].pc = "fetch_threw") = alone.threw

\* two invocations in progress at once were both served from the fallback
\* dataset, with different queries
C27_Witness ==
    /\ calls[1].pc = "fetch_returned" /\ calls[2].pc = "fetch_returned"
    /\ calls[1].upstream.state = "rejected" /\ calls[2].upstream.state = "rejected"
    /\ calls[1].input = [NoQuery EXCEPT !.industry = Some(<<"FURNITURE">>)]
    /\ calls[2].input = [NoQuery EXCEPT !.offset = Some(1)]
    /\ Len(calls[1].ret) = 2 /\ Len(calls[2].ret) = 5

\* C28: an SSE connection that has closed has no session in activeSessions,
\* however its "close" event falls relative to the completion of
\* server.connect and the registration of the session; so activeSessions,
\* and the count GET /health reports, never holds an entry of a closed
\* connection.
C28_NoSessionOfClosedConnection ==
    \A c \in ConnIds :
        conns[c].closed => SessionIdOf(c) \notin DOMAIN activeSessions

\* GET /health reports one session after the only connection has closed
LeakedSessionCounted ==
    /\ lastRequest.kind = "health"
    /\ lastRequest.activeSessions = 1
    /\ conns[1].closed
    /\ conns[2].state = "none"

\* the session of a connection that closed during await server.connect is
\* registered afterwards, and no later step removes it
LeakedSessionStays ==
    [][\A c \in ConnIds :
           (conns[c].closed /\ SessionIdOf(c) \in DOMAIN activeSessions)
               => SessionIdOf(c) \in DOMAIN activeSessions']_vars

\* C29: a POST /messages without a sessionId is answered 400, one whose
\* sessionId is not in activeSessions at that moment is answered 404, and no
\* transport handles either; a message is handed only to the transport that
\* is registered under its sessionId; a /mcp request leaves activeSessions
\* as it was and is handled by no transport of activeSessions.
C29_MessagesRoutedBySession ==
    LET r == lastRequest
        missing == r.sessionId = None \/ r.sessionId = Some("")
    IN  /\ r.kind = "messages" =>
               /\ missing => r.status = 400 /\ r.transport = NoTransport
               /\ (~missing /\ r.sessionId[1] \notin DOMAIN r.before)
                      => r.status = 404 /\ r.transport = NoTransport
               /\ r.transport # NoTransport =>
                      /\ ~missing
                      /\ r.sessionId[1] \in DOMAIN r.before
                      /\ r.transport = r.before[r.sessionId[1]]
                      /\ r.status = 0
               /\ r.after = r.before
        /\ r.kind = "mcp" =>
               /\ r.after = r.before
               /\ r.transport \notin {r.before[sid] : sid \in DOMAIN r.before}
               /\ r.transport \notin ConnIds

\* a message for a session that was registered and has closed is answered
\* 404 while another session is registered
C29_Witness ==
    /\ lastRequest.kind = "messages"
    /\ lastRequest.sessionId = Some(SessionIdOf(1))
    /\ lastRequest.status = 404
    /\ conns[1].state = "registered"
    /\ conns[1].closed
    /\ SessionIdOf(2) \in DOMAIN lastRequest.before

\* a message is handed to the transport of the session it names, a /mcp
\* request is served with sessions registered, a request without sessionId
\* is answered 400
C29_RoutedWitness ==
    /\ lastRequest.kind = "messages"
    /\ lastRequest.sessionId = Some(SessionIdOf(2))
    /\ lastRequest.transport = 2
    /\ DOMAIN lastRequest.before = {SessionIdOf(1), SessionIdOf(2)}

\* the offers a returned call delivered: those of its envelope, none when it
\* replied with the no-offers message
DeliveredOffers ==
    IF IsPopulatedEnvelope(result) THEN Get(result.payload).offers ELSE <<>>

\* the place of a delivered offer in the legacy dataset
LegacyIndex(offer) ==
    CHOOSE i \in 1..Len(LEGACY_MOCK_OFFERS) : LEGACY_MOCK_OFFERS[i] = offer

\* C30: the legacy fetch delivers, in dataset order, exactly the mock offers
\* whose lowercased title or link contains the lowercased trimmed category
\* and whose price is at most maxPrice when one is given; "beds" up to 1000
\* gives two offers, "electronics" up to 300 the Sony headphones (279.99)
\* alone, and "furniture" none, answered with the no-offers message.
C30_LegacyFetch ==
    (pc = "handler_returned" /\ IsSome(args.category)) =>
        LET wanted == trim(toLowerCase(Get(args.category)))
            kept == DeliveredOffers
            Qualifies(offer) ==
                /\ \/ includes(toLowerCase(offer.title), wanted)
                   \/ includes(toLowerCase(offer.link), wanted)
                /\ IsSome(args.maxPrice) => offer.price <= Get(args.maxPrice)
        IN  /\ \A i \in 1..Len(LEGACY_MOCK_OFFERS) :
                   Qualifies(LEGACY_MOCK_OFFERS[i])
                       <=> \E j \in 1..Len(kept) : kept[j] = LEGACY_MOCK_OFFERS[i]
            /\ \A j, k \in 1..Len(kept) :
                   j < k => LegacyIndex(kept[j]) < LegacyIndex(kept[k])
            /\ (args.category = Some("beds") /\ args.maxPrice = Some(100000))
                   => Len(kept) = 2
            /\ (args.category = Some("electronics") /\ args.maxPrice = Some(30000))
                   => /\ Len(kept) = 1
                      /\ kept[1].title = "Sony WH-1000XM5 Headphones"
                      /\ kept[1].price = 27999
            /\ args.category = Some("furniture")
                   => /\ kept = <<>>
                      /\ IsEmptyMessage(result)
                      /\ includes(result.text, "No offers found in \"furniture\"")

\* "beds" up to 1000 delivered the Serta and the Nectar mattress, in that
\* order, and left out the Sealy (1199.99)
C30_Witness ==
    /\ pc = "handler_returned"
    /\ args.category = Some("beds")
    /\ args.maxPrice = Some(100000)
    /\ Len(DeliveredOffers) = 2
    /\ DeliveredOffers[1].title = "Serta Perfect Sleeper Queen Mattress"
    /\ DeliveredOffers[2].title = "Nectar Memory Foam Twin Mattress"

====
